---------------------------- MODULE Spec2Model ----------------------------
(***************************************************************************)
(* Article-metadata scraper: webScraping2.py (fetch and extract fused, in  *)
(* memory) and webScraping.py / webScraping3.py (pages staged to           *)
(* page_<i>.html, then a second pass over os.listdir).                     *)
(*                                                                         *)
(* Python values: None is <<>>, a value v that may be None is <<v>>.       *)
(* A parsed document (what BeautifulSoup hands to the lookups) is a record *)
(*   meta      : <<>> or <<attrs>>, attrs of the first meta name=dc.Title  *)
(*   authors   : get_text(strip=True) of each div with id corresp1-*       *)
(*   history   : <<>> or <<children>>, the div.core-history's divs, each   *)
(*               [label : <<>> or <<text of its b.core-label>>,            *)
(*                text  : its get_text(strip=True)]                        *)
(*   scripts   : script.string of each script tag (<<>> when None)         *)
(*   abstract  : <<>> (no section#abstract), << <<>> >> (no paragraph div) *)
(*               or << <<text>> >>                                         *)
(***************************************************************************)
EXTENDS Integers, Sequences, FiniteSets, TLC

VARIABLES
    html,        \* extractor harness: the document under extraction
    memOut,      \* extractor harness: outcome of extract_data_from_html
    diskOut,     \* extractor harness: outcome of the five file extractors
    variant,     \* the script run: "memory" (webScraping2.py), "disk"
                 \* (webScraping.py, webScraping3.py), "none" before any run
    pc,          \* position of main()
    hrefs,       \* links returned by extract_links
    i,           \* enumerate(hrefs, start=1): index of the next link
    browser,     \* TRUE while the chromium browser is open
    pages,       \* number of open pages (rendering contexts)
    dir,         \* working directory: file name -> document
    listing,     \* os.listdir(html_directory), the part not yet visited
    data,        \* the list of rows
    csv,         \* scraped_data.csv: <<>> or <<[header, rows]>>
    run,         \* number of runs of main() started so far
    fetched,     \* history: documents fetched by this run, in order
    staged,      \* history: file names written by this run
    removed,     \* history: file names removed by this run
    exports,     \* history: to_csv calls of this run
    failed       \* history: index of the link whose fetch failed, 0 if none

vars == <<html, memOut, diskOut, variant, pc, hrefs, i, browser, pages, dir,
          listing, data, csv, run, fetched, staged, removed, exports, failed>>

driverVars == <<variant, pc, hrefs, i, browser, pages, dir, listing, data,
                csv, run, fetched, staged, removed, exports, failed>>

harnessVars == <<html, memOut, diskOut>>

None == <<>>

Some(v) == <<v>>

\* Python truthiness of an optional string: not None and not ''.
Truthy(o) == o # None /\ o[1] # ""

---------------------------------------------------------------------------
(* Strings and the three regular expressions of the authors cleaning.      *)

Ch(s, k) == SubSeq(s, k, k)

\* \s restricted to the characters the inputs use.
IsSpace(c) == c = " "

Min(S) == CHOOSE x \in S : \A y \in S : x <= y

\* \s* from k on: the index of the first character at or after k that is no space.
SkipSpaces(s, k) ==
    IF k > Len(s) THEN k
    ELSE Min({j \in k..Len(s) + 1 : j = Len(s) + 1 \/ ~IsSpace(Ch(s, j))})

\* [^\s]* from k on: the index of the first space at or after k.
SkipNonSpaces(s, k) ==
    IF k > Len(s) THEN k
    ELSE Min({j \in k..Len(s) + 1 : j = Len(s) + 1 \/ IsSpace(Ch(s, j))})

StartsWithAt(s, k, lit) ==
    /\ k + Len(lit) - 1 <= Len(s)
    /\ SubSeq(s, k, k + Len(lit) - 1) = lit

\* Index of the first occurrence of lit at or after k, 0 when there is none.
FindFrom(s, lit, k) ==
    LET found == {j \in k..Len(s) : StartsWithAt(s, j, lit)}
    IN  IF found = {} THEN 0 ELSE Min(found)

\* Python's  lit in s.
Contains(s, lit) == FindFrom(s, lit, 1) # 0

RECURSIVE LStrip(_)
LStrip(s) == IF Len(s) > 0 /\ IsSpace(Ch(s, 1)) THEN LStrip(SubSeq(s, 2, Len(s))) ELSE s

RECURSIVE RStrip(_)
RStrip(s) ==
    IF Len(s) > 0 /\ IsSpace(Ch(s, Len(s))) THEN RStrip(SubSeq(s, 1, Len(s) - 1)) ELSE s

\* str.strip()
Strip(s) == RStrip(LStrip(s))

RECURSIVE Join(_, _)
\* sep.join(parts)
Join(sep, parts) ==
    IF Len(parts) = 0 THEN ""
    ELSE IF Len(parts) = 1 THEN parts[1]
    ELSE parts[1] \o sep \o Join(sep, Tail(parts))

EmailRe == "\\s*email:[^\\s]+"

OpenRe == "\\s*\\("

CloseRe == "\\)\\s*"

\* The email pattern as  \s*email:\s*[^\s]+ : spaces allowed after the colon.
MatchEmailAnySpace(s, k) ==
    LET j == SkipSpaces(s, k)
        v == SkipSpaces(s, j + 6)
        e == SkipNonSpaces(s, v)
    IN  IF StartsWithAt(s, j, "email:") /\ e > v THEN e ELSE 0

\* A match of the pattern starting exactly at k: the index after the match,
\* 0 when there is none.  Every quantifier is greedy and none can give back.
MatchEmailAt(s, k) ==
    LET j == SkipSpaces(s, k)
        e == SkipNonSpaces(s, j + 6)
    IN  IF StartsWithAt(s, j, "email:") /\ e > j + 6 THEN e ELSE 0

MatchOpenAt(s, k) ==
    LET j == SkipSpaces(s, k)
    IN  IF StartsWithAt(s, j, "(") THEN j + 1 ELSE 0

MatchCloseAt(s, k) ==
    IF StartsWithAt(s, k, ")") THEN SkipSpaces(s, k + 1) ELSE 0

MatchAt(pattern, s, k) ==
    IF pattern = EmailRe THEN MatchEmailAt(s, k)
    ELSE IF pattern = OpenRe THEN MatchOpenAt(s, k)
    ELSE MatchCloseAt(s, k)

RECURSIVE SubFrom(_, _, _, _)
\* The scan from k: the text up to the leftmost match is kept, the match is
\* replaced, and the scan goes on after the match.
SubFrom(pattern, repl, s, k) ==
    LET starts == {j \in k..Len(s) : MatchAt(pattern, s, j) > 0}
    IN  IF starts = {} THEN SubSeq(s, k, Len(s))
        ELSE SubSeq(s, k, Min(starts) - 1) \o repl
             \o SubFrom(pattern, repl, s, MatchAt(pattern, s, Min(starts)))

\* re.sub(pattern, repl, s): leftmost non-overlapping matches replaced.
re_sub(pattern, repl, s) == SubFrom(pattern, repl, s, 1)

\* The three substitutions, in the order both variants apply them.
CleanAuthors(s) ==
    re_sub(CloseRe, ".", re_sub(OpenRe, ".", re_sub(EmailRe, ".", s)))

\* A match of  doi\s*:\s*'([^']+)'  starting exactly at k: <<group 1>>, or <<>>.
MatchDoiAt(s, k) ==
    LET j == SkipSpaces(s, k + 3)
        q == SkipSpaces(s, j + 1)
        e == FindFrom(s, "'", q + 1)
    IN  IF /\ StartsWithAt(s, k, "doi")
           /\ StartsWithAt(s, j, ":")
           /\ StartsWithAt(s, q, "'")
           /\ e > q + 1
        THEN Some(SubSeq(s, q + 1, e - 1))
        ELSE None

\* re.search(r"doi\s*:\s*'([^']+)'", s): <<group(1)>> of the leftmost match, or None.
SearchDoi(s) ==
    LET starts == {j \in 1..Len(s) : MatchDoiAt(s, j) # None}
    IN  IF starts = {} THEN None ELSE MatchDoiAt(s, Min(starts))

---------------------------------------------------------------------------
(* The Markup Extractor: extract_data_from_html (webScraping2.py) and the  *)
(* five file extractors (webScraping.py, webScraping3.py).                 *)

\* An uncaught exception of a sub-extraction.
IndexError == <<"raise", "IndexError">>

Row(title, authors, date, doi, abstract) ==
    [Title |-> title, Authors |-> authors, Publication_date |-> date,
     DOI |-> doi, Abstract |-> abstract]

NullRow == Row(None, None, None, None, None)

\* The outcome of an extraction: a row, or the exception that ended it.
Returned(row) == [exc |-> "", row |-> row]

Raised(e) == [exc |-> e[2], row |-> NullRow]

NotRun == [exc |-> "not run", row |-> NullRow]

\* meta_tag and 'content' in meta_tag.attrs  ->  meta_tag['content']
TitleOf(doc) ==
    IF doc.meta # <<>> /\ "content" \in DOMAIN doc.meta[1]
    THEN Some(doc.meta[1].content)
    ELSE None

extract_title_from_html(file) == TitleOf(file)

\* webScraping2.py: join the texts, then substitute over the joined string.
AuthorsJoinThenClean(doc) ==
    IF Len(doc.authors) > 0 THEN Some(CleanAuthors(Join(" ", doc.authors))) ELSE None

\* webScraping.py, webScraping3.py: substitute in each text, then join.
extract_authors_from_html(file) ==
    IF Len(file.authors) > 0
    THEN Some(Join(" ", [k \in 1..Len(file.authors) |-> CleanAuthors(file.authors[k])]))
    ELSE None

Marker == "Article first published online"

\* label and 'Article first published online' in label.get_text()
LabelMatches(child) == child.label # None /\ Contains(child.label[1], Marker)

\* div.get_text(strip=True).split(':', 1)[1].strip(): with no colon the split
\* has one element and [1] raises IndexError.
SplitDate(text) ==
    LET c == FindFrom(text, ":", 1)
    IN  IF c = 0 THEN IndexError ELSE Some(Strip(SubSeq(text, c + 1, Len(text))))

RECURSIVE DateLastMatch(_, _)
\* webScraping2.py: the loop assigns on every matching child and goes on.
DateLastMatch(children, acc) ==
    IF Len(children) = 0 THEN acc
    ELSE IF ~LabelMatches(Head(children)) THEN DateLastMatch(Tail(children), acc)
    ELSE IF SplitDate(Head(children).text) = IndexError THEN IndexError
    ELSE DateLastMatch(Tail(children), SplitDate(Head(children).text))

PublicationDateInMemory(doc) ==
    IF doc.history # <<>> THEN DateLastMatch(doc.history[1], None) ELSE None

RECURSIVE DateFirstMatch(_)
\* webScraping.py, webScraping3.py: the loop returns on the first matching child.
DateFirstMatch(children) ==
    IF Len(children) = 0 THEN None
    ELSE IF LabelMatches(Head(children)) THEN SplitDate(Head(children).text)
    ELSE DateFirstMatch(Tail(children))

extract_publication_date_from_html(file) ==
    IF file.history # <<>> THEN DateFirstMatch(file.history[1]) ELSE None

ScriptMarker == "var journalAdParams ="

\* script.string and 'var journalAdParams =' in script.string, and the doi matches
DoiIn(script) ==
    IF script # None /\ script[1] # "" /\ Contains(script[1], ScriptMarker)
    THEN SearchDoi(script[1])
    ELSE None

RECURSIVE DoiLastMatch(_, _)
\* webScraping2.py: the loop assigns on every matching script and goes on.
DoiLastMatch(scripts, acc) ==
    IF Len(scripts) = 0 THEN acc
    ELSE IF DoiIn(Head(scripts)) # None THEN DoiLastMatch(Tail(scripts), DoiIn(Head(scripts)))
    ELSE DoiLastMatch(Tail(scripts), acc)

RECURSIVE DoiFirstMatch(_)
\* webScraping.py, webScraping3.py: the loop returns on the first match.
DoiFirstMatch(scripts) ==
    IF Len(scripts) = 0 THEN None
    ELSE IF DoiIn(Head(scripts)) # None THEN DoiIn(Head(scripts))
    ELSE DoiFirstMatch(Tail(scripts))

extract_doi_from_html(file) == DoiFirstMatch(file.scripts)

\* section#abstract, then its div role=paragraph, then get_text(strip=True)
AbstractOf(doc) ==
    IF doc.abstract # <<>> /\ doc.abstract[1] # <<>> THEN doc.abstract[1] ELSE None

extract_abstract_from_html(file) == AbstractOf(file)

\* webScraping2.py: one function, so an exception in one field ends them all.
extract_data_from_html(html_content) ==
    IF PublicationDateInMemory(html_content) = IndexError THEN Raised(IndexError)
    ELSE Returned(Row(TitleOf(html_content), AuthorsJoinThenClean(html_content),
                      PublicationDateInMemory(html_content),
                      DoiLastMatch(html_content.scripts, None),
                      AbstractOf(html_content)))

\* main() of the staging variants: the five calls in a row, then the dict.
ExtractFromFile(file) ==
    IF extract_publication_date_from_html(file) = IndexError THEN Raised(IndexError)
    ELSE Returned(Row(extract_title_from_html(file), extract_authors_from_html(file),
                      extract_publication_date_from_html(file),
                      extract_doi_from_html(file), extract_abstract_from_html(file)))

---------------------------------------------------------------------------
(* Documents.                                                              *)

MaxElems == 2

SeqsUpTo(S, n) == UNION {[1..k -> S] : k \in 0..n}

Doc(meta, authors, history, scripts, abstract) ==
    [meta |-> meta, authors |-> authors, history |-> history,
     scripts |-> scripts, abstract |-> abstract]

JaneDoe == "Jane Doe (email: jane@x.com) Dept of Y"

MetaInputs ==
    { <<>>,
      <<[name |-> "dc.Title"]>>,
      <<[name |-> "dc.Title", content |-> ""]>>,
      <<[name |-> "dc.Title", content |-> "T1"]>> }

\* Texts as get_text(strip=True) returns them: no leading or trailing space.
AuthorTexts ==
    { "A", "B (email:b@x.org)", "C)", "(D", "email:e@x.org", "F email:",
      "Jane Doe email:jane@x.com Dept of Y", JaneDoe }

HistoryChildren ==
    { [label |-> None, text |-> "Received: 1 May 2024"],
      [label |-> Some("Issue published:"), text |-> "Issue published:July 2024"],
      [label |-> Some("Article first published online:"),
       text |-> "Article first published online:May 2, 2024"],
      [label |-> Some("Article first published online:"),
       text |-> "Article first published online:June 3, 2024"],
      [label |-> Some("Article first published online"),
       text |-> "Article first published onlineMay 2, 2024"] }

HistoryInputs == {<<>>} \cup {<<c>> : c \in SeqsUpTo(HistoryChildren, MaxElems)}

DoiScript == "var journalAdParams = {doi: '10.1177/0025149241234567', other: 1};"

ScriptStrings ==
    { None,
      Some("var x = 1;"),
      Some(DoiScript),
      Some("var journalAdParams = {doi : '10.1177/b'};"),
      Some("var journalAdParams = {other: 1};"),
      Some("var other = {doi: '10.1177/c'};") }

AbstractInputs == { <<>>, << <<>> >>, << <<"We study X.">> >> }

WellFormed ==
    Doc(<<[name |-> "dc.Title", content |-> "T1"]>>, <<"A">>,
        << <<[label |-> Some("Article first published online:"),
              text |-> "Article first published online:May 2, 2024"]>> >>,
        <<Some(DoiScript)>>, << <<"We study X.">> >>)

\* The documents the harness extracts from: a well-formed page with one part
\* replaced by every input of that part.
HarnessDocs ==
    {[WellFormed EXCEPT !.meta = m] : m \in MetaInputs}
    \cup {[WellFormed EXCEPT !.authors = a] : a \in SeqsUpTo(AuthorTexts, MaxElems)}
    \cup {[WellFormed EXCEPT !.history = h] : h \in HistoryInputs}
    \cup {[WellFormed EXCEPT !.scripts = s] : s \in SeqsUpTo(ScriptStrings, MaxElems)}
    \cup {[WellFormed EXCEPT !.abstract = a] : a \in AbstractInputs}
    \cup {[WellFormed EXCEPT !.meta = <<>>, !.history = h] : h \in HistoryInputs}

EmptyDir == [n \in {} |-> WellFormed]

DriverIdle ==
    /\ variant = "none" /\ pc = "start" /\ hrefs = <<>> /\ i = 1
    /\ browser = FALSE /\ pages = 0 /\ dir = EmptyDir /\ listing = {}
    /\ data = <<>> /\ csv = <<>> /\ run = 0 /\ fetched = <<>>
    /\ staged = {} /\ removed = {} /\ exports = 0 /\ failed = 0

InitExtract ==
    /\ html \in HarnessDocs
    /\ memOut = NotRun
    /\ diskOut = NotRun
    /\ DriverIdle

RunInMemory ==
    /\ memOut = NotRun
    /\ memOut' = extract_data_from_html(html)
    /\ UNCHANGED <<html, diskOut>>
    /\ UNCHANGED driverVars

RunFromFile ==
    /\ diskOut = NotRun
    /\ diskOut' = ExtractFromFile(html)
    /\ UNCHANGED <<html, memOut>>
    /\ UNCHANGED driverVars

NextExtract == RunInMemory \/ RunFromFile

SpecExtract == InitExtract /\ [][NextExtract]_vars

---------------------------------------------------------------------------
(* The Pipeline Driver: main() of the three files.                         *)

MaxLinks == 2

MaxRuns == 2

\* The hrefs of the listing page's anchors a[href^="/doi/abs/"].
Hrefs == {"/doi/abs/a", "/doi/abs/b", "/doi/abs/c", "/doi/abs/d", "/doi/abs/e"}

\* What the site serves at base_url + href.
Site(href) ==
    CASE href = "/doi/abs/a" ->
            Doc(<<[name |-> "dc.Title", content |-> "Ta"]>>, <<"A">>,
                << <<[label |-> Some("Article first published online:"),
                      text |-> "Article first published online:May 2, 2024"]>> >>,
                <<Some(DoiScript)>>, << <<"We study X.">> >>)
      [] href = "/doi/abs/b" ->
            Doc(<<[name |-> "dc.Title", content |-> "Tb"]>>, <<>>, <<>>, <<>>, <<>>)
      [] href = "/doi/abs/c" ->
            Doc(<<>>, <<"C)", "A">>, <<>>, <<Some(DoiScript)>>, << <<"We study Y.">> >>)
      [] href = "/doi/abs/d" ->
            Doc(<<[name |-> "dc.Title", content |-> ""]>>, <<"A">>, <<>>, <<>>, <<>>)
      [] OTHER ->
            Doc(<<[name |-> "dc.Title", content |-> "Te"]>>, <<>>,
                << <<[label |-> Some("Article first published online"),
                      text |-> "Article first published onlineMay 2, 2024"]>> >>,
                <<>>, <<>>)

\* A page saved by an earlier use of the directory, and a file that is no page.
StaleDoc == Doc(<<[name |-> "dc.Title", content |-> "Told"]>>, <<>>, <<>>, <<>>, <<>>)

NoDoc == Doc(<<>>, <<>>, <<>>, <<>>, <<>>)

\* The working directory main() may start in: empty, holding files of other
\* origin, or holding what a run that raised in its second loop left behind.
InitDirs ==
    { EmptyDir,
      [n \in {"other.html", "notes.txt"} |-> IF n = "other.html" THEN StaleDoc ELSE NoDoc],
      [n \in {"page_1.html", "page_2.html"} |->
          IF n = "page_1.html" THEN Site("/doi/abs/e") ELSE Site("/doi/abs/a")] }

\* f'page_{i}.html'
PageFile(k) == "page_" \o ToString(k) \o ".html"

\* filename.endswith('.html')
EndsWithHtml(filename) ==
    Len(filename) >= 5 /\ SubSeq(filename, Len(filename) - 4, Len(filename)) = ".html"

WriteFile(d, name, doc) ==
    [n \in DOMAIN d \cup {name} |-> IF n = name THEN doc ELSE d[n]]

RemoveFile(d, name) == [n \in DOMAIN d \ {name} |-> d[n]]

\* The test as  is not None : an empty title passes it.
RetainIfPresent(row) == row.Title # None

\* if article_data['Title']:   /   if title:
Retain(row) == Truthy(row.Title)

ColumnNames == <<"Title", "Authors With Their Affliations", "Publication_date", "DOI", "Abstract">>

\* pd.DataFrame(rows): the columns are the keys of the dicts, none for no dict.
Columns(rows) == IF Len(rows) = 0 THEN <<>> ELSE ColumnNames

Cell(o) == IF o = None THEN "" ELSE o[1]

Cells(row) ==
    <<Cell(row.Title), Cell(row.Authors), Cell(row.Publication_date),
      Cell(row.DOI), Cell(row.Abstract)>>

RECURSIVE CsvRows(_)
CsvRows(rows) ==
    IF Len(rows) = 0 THEN <<>> ELSE <<Cells(Head(rows))>> \o CsvRows(Tail(rows))

\* df.to_csv('scraped_data.csv', index=False): the header line, then the rows.
to_csv(rows) == [header |-> Columns(rows), rows |-> CsvRows(rows)]

Init ==
    /\ html = WellFormed /\ memOut = NotRun /\ diskOut = NotRun
    /\ variant = "none"
    /\ pc = "start"
    /\ hrefs = <<>> /\ i = 1
    /\ browser = FALSE /\ pages = 0
    /\ dir \in InitDirs
    /\ listing = {}
    /\ data = <<>> /\ csv = <<>>
    /\ run = 0
    /\ fetched = <<>> /\ staged = {} /\ removed = {} /\ exports = 0 /\ failed = 0

\* main() up to the for loop: launch, open the listing page, extract_links.
StartMain ==
    /\ run' = run + 1
    /\ variant' \in {"memory", "disk"}
    /\ browser' = TRUE
    /\ pages' = 1
    /\ hrefs' \in SeqsUpTo(Hrefs, MaxLinks)
    /\ i' = 1
    /\ data' = <<>>
    /\ listing' = {}
    /\ fetched' = <<>> /\ staged' = {} /\ removed' = {} /\ exports' = 0 /\ failed' = 0
    /\ pc' = "loop"
    /\ UNCHANGED <<dir, csv>>
    /\ UNCHANGED harnessVars

\* The first run of main() in the directory.
Launch ==
    /\ pc = "start"
    /\ StartMain

\* main() run again after a run that ended, the directory as that run left it.
Relaunch ==
    /\ pc \in {"done", "aborted", "crashed"}
    /\ run < MaxRuns
    /\ StartMain

\* webScraping2.py: one iteration of the loop, the fetch having succeeded.
FetchAndExtract ==
    /\ variant = "memory" /\ pc = "loop" /\ i <= Len(hrefs)
    /\ LET html_content == Site(hrefs[i])
           article_data == extract_data_from_html(html_content)
       IN  /\ fetched' = Append(fetched, html_content)
           /\ IF article_data.exc # ""
              THEN pc' = "crashed" /\ UNCHANGED <<i, data>>
              ELSE /\ data' = IF Retain(article_data.row)
                              THEN Append(data, article_data.row)
                              ELSE data
                   /\ i' = i + 1
                   /\ UNCHANGED pc
    /\ UNCHANGED <<variant, hrefs, browser, pages, dir, listing, csv, run,
                   staged, removed, exports, failed>>
    /\ UNCHANGED harnessVars

\* webScraping.py, webScraping3.py: one iteration, the fetch having succeeded.
FetchAndStage ==
    /\ variant = "disk" /\ pc = "loop" /\ i <= Len(hrefs)
    /\ LET html_content == Site(hrefs[i])
           filename == PageFile(i)
       IN  /\ fetched' = Append(fetched, html_content)
           /\ dir' = WriteFile(dir, filename, html_content)
           /\ staged' = staged \cup {filename}
    /\ i' = i + 1
    /\ UNCHANGED <<variant, pc, hrefs, browser, pages, listing, data, csv, run,
                   removed, exports, failed>>
    /\ UNCHANGED harnessVars

\* The exception caught in the loop: the link is skipped and the loop goes on.
FetchFailsSkipped ==
    /\ pc = "loop" /\ i <= Len(hrefs)
    /\ failed' = i
    /\ i' = i + 1
    /\ UNCHANGED <<variant, pc, hrefs, browser, pages, dir, listing, data, csv, run,
                   fetched, staged, removed, exports>>
    /\ UNCHANGED harnessVars

\* page.goto or page.wait_for_load_state raises: nothing catches it, main()
\* ends there with the page it opened still open.
FetchFails ==
    /\ pc = "loop" /\ i <= Len(hrefs)
    /\ pages' = pages + 1
    /\ failed' = i
    /\ pc' = "aborted"
    /\ UNCHANGED <<variant, hrefs, i, browser, dir, listing, data, csv, run,
                   fetched, staged, removed, exports>>
    /\ UNCHANGED harnessVars

\* The loop left without browser.close().
CloseBrowserLeftOpen ==
    /\ pc = "loop" /\ i > Len(hrefs)
    /\ pc' = IF variant = "memory" THEN "export" ELSE "listdir"
    /\ UNCHANGED <<variant, hrefs, i, browser, pages, dir, listing, data, csv, run,
                   fetched, staged, removed, exports, failed>>
    /\ UNCHANGED harnessVars

\* browser.close() after the loop: every page of the browser closes with it.
CloseBrowser ==
    /\ pc = "loop" /\ i > Len(hrefs)
    /\ browser' = FALSE
    /\ pages' = 0
    /\ pc' = IF variant = "memory" THEN "export" ELSE "listdir"
    /\ UNCHANGED <<variant, hrefs, i, dir, listing, data, csv, run,
                   fetched, staged, removed, exports, failed>>
    /\ UNCHANGED harnessVars

\* data = [] and os.listdir(html_directory).  The list is in arbitrary order:
\* listing holds the names not yet visited and the loop takes any of them.
ListDir ==
    /\ pc = "listdir"
    /\ data' = <<>>
    /\ listing' = DOMAIN dir
    /\ pc' = "files"
    /\ UNCHANGED <<variant, hrefs, i, browser, pages, dir, csv, run,
                   fetched, staged, removed, exports, failed>>
    /\ UNCHANGED harnessVars

\* os.remove inside the  if title:  block: an unretained page stays on disk.
ProcessFileRemoveRetained ==
    /\ pc = "files"
    /\ \E filename \in listing :
          /\ listing' = listing \ {filename}
          /\ IF ~EndsWithHtml(filename)
             THEN UNCHANGED <<pc, data, dir, removed>>
             ELSE LET out == ExtractFromFile(dir[filename])
                  IN  IF out.exc # ""
                      THEN pc' = "crashed" /\ UNCHANGED <<data, dir, removed>>
                      ELSE IF Retain(out.row)
                      THEN /\ data' = Append(data, out.row)
                           /\ dir' = RemoveFile(dir, filename)
                           /\ removed' = removed \cup {filename}
                           /\ UNCHANGED pc
                      ELSE UNCHANGED <<pc, data, dir, removed>>
    /\ UNCHANGED <<variant, hrefs, i, browser, pages, csv, run,
                   fetched, staged, exports, failed>>
    /\ UNCHANGED harnessVars

\* One iteration of the second loop.
ProcessFile ==
    /\ pc = "files"
    /\ \E filename \in listing :
          /\ listing' = listing \ {filename}
          /\ IF ~EndsWithHtml(filename)
             THEN UNCHANGED <<pc, data, dir, removed>>
             ELSE LET out == ExtractFromFile(dir[filename])
                  IN  IF out.exc # ""
                      THEN pc' = "crashed" /\ UNCHANGED <<data, dir, removed>>
                      ELSE /\ data' = IF Retain(out.row) THEN Append(data, out.row) ELSE data
                           /\ dir' = RemoveFile(dir, filename)
                           /\ removed' = removed \cup {filename}
                           /\ UNCHANGED pc
    /\ UNCHANGED <<variant, hrefs, i, browser, pages, csv, run,
                   fetched, staged, exports, failed>>
    /\ UNCHANGED harnessVars

\* pd.DataFrame(data).to_csv('scraped_data.csv', index=False)
Export ==
    /\ \/ pc = "export"
       \/ pc = "files" /\ listing = {}
    /\ csv' = Some(to_csv(data))
    /\ exports' = exports + 1
    /\ pc' = "done"
    /\ UNCHANGED <<variant, hrefs, i, browser, pages, dir, listing, data, run,
                   fetched, staged, removed, failed>>
    /\ UNCHANGED harnessVars

Next ==
    \/ Launch
    \/ FetchAndExtract
    \/ FetchAndStage
    \/ FetchFails
    \/ CloseBrowser
    \/ ListDir
    \/ ProcessFile
    \/ Export

\* One run of main().
Spec == Init /\ [][Next]_vars

NextRuns == Next \/ Relaunch

\* Runs of main() one after the other in the same directory.
SpecRuns == Init /\ [][NextRuns]_vars

---------------------------------------------------------------------------
(* Properties.                                                             *)

NonEmptyTitle(row) == row.Title # None /\ row.Title[1] # ""

\* The row the running script extracts from a document.
RowOf(doc) ==
    IF variant = "memory" THEN extract_data_from_html(doc).row ELSE ExtractFromFile(doc).row

RowsIn(rows) == {rows[k] : k \in 1..Len(rows)}

RECURSIVE IsSubsequence(_, _)
IsSubsequence(a, b) ==
    IF Len(a) = 0 THEN TRUE
    ELSE IF Len(b) = 0 THEN FALSE
    ELSE IF Head(a) = Head(b) THEN IsSubsequence(Tail(a), Tail(b))
    ELSE IsSubsequence(a, Tail(b))

RECURSIVE RetainedRows(_)
\* The rows of the fetched documents that have a non-empty title, in fetch order.
RetainedRows(docs) ==
    IF Len(docs) = 0 THEN <<>>
    ELSE (IF NonEmptyTitle(RowOf(Head(docs))) THEN <<RowOf(Head(docs))>> ELSE <<>>)
         \o RetainedRows(Tail(docs))

TitleOnlyRow == Row(Some("Tb"), None, None, None, None)

\* C1: every row collected, and so every row exported, has a non-empty title; at
\* the export a fetched page has its row in the output exactly when its title is
\* non-empty (no dc.Title tag, no content attribute and an empty content all give
\* no row), whatever its four other fields are.
C1_TitleFilter ==
    /\ \A k \in 1..Len(data) : NonEmptyTitle(data[k])
    /\ pc = "done" =>
          /\ \A k \in 1..Len(fetched) :
                NonEmptyTitle(RowOf(fetched[k])) <=> RowOf(fetched[k]) \in RowsIn(data)
          /\ csv # <<>> /\ Len(csv[1].rows) = Len(data)

\* C1 witness: an export after fetching a page without a usable title and a page
\* that has a title and nothing else, whose row is in the output.
C1_Witness ==
    /\ pc = "done"
    /\ \E k \in 1..Len(fetched) : ~NonEmptyTitle(RowOf(fetched[k]))
    /\ TitleOnlyRow \in RowsIn(data)
    /\ Len(csv[1].rows) = 1

\* C2: at the export the retained rows of the fetched pages stand in the output
\* in the order of their links on the listing page.
C2_DiscoveryOrder ==
    pc = "done" => IsSubsequence(RetainedRows(fetched), data)

\* C3: whenever the exported sequence is empty, the written table is the header
\* row with the five column names and no data row.
C3_HeaderOnlyTable ==
    (pc = "done" /\ Len(data) = 0) =>
        csv = Some([header |-> ColumnNames, rows |-> <<>>])

\* C4: no extraction raises: each of the two extractors ends with a row.
C4_NeverRaises ==
    memOut.exc # "IndexError" /\ diskOut.exc # "IndexError"

C5_Aborted ==
    failed # 0 =>
        /\ pc = "aborted"
        /\ i = failed
        /\ Len(fetched) = failed - 1
        /\ Len(data) <= failed - 1
        /\ removed = {}
        /\ exports = 0

C5_LoopCompleted ==
    pc \in {"export", "listdir", "files", "done"} =>
        failed = 0 /\ Len(fetched) = Len(hrefs)

\* C5: once the fetch of link k has failed the run stays aborted with exactly the
\* k-1 links before it fetched, nothing exported, and the output file as it was;
\* no step of that run follows.  A run that gets past the loop fetched every link.
C5_AbortOnFirstFailure ==
    /\ [](C5_Aborted /\ C5_LoopCompleted)
    /\ [][(failed' # 0 => csv' = csv) /\ (failed # 0 => run' # run)]_vars

\* C5 witness: the first of two links failed.
C5_Witness ==
    pc = "aborted" /\ failed = 1 /\ Len(hrefs) = 2 /\ exports = 0

\* C6: at the export of a staging run the run has staged one file per link,
\* page_1.html .. page_N.html, has removed each of them, and no .html file is
\* left in the directory.
C6_StagedFilesRemoved ==
    (pc = "done" /\ variant = "disk") =>
        /\ staged = {PageFile(k) : k \in 1..Len(hrefs)}
        /\ Cardinality(staged) = Len(hrefs)
        /\ staged \subseteq removed
        /\ \A n \in DOMAIN dir : n \notin staged /\ ~EndsWithHtml(n)

\* C6 witness: a staging run over the same link twice, a page without a title.
C6_Witness ==
    /\ pc = "done" /\ variant = "disk"
    /\ hrefs = <<"/doi/abs/c", "/doi/abs/c">>
    /\ Len(data) = 0
    /\ removed = {PageFile(1), PageFile(2)}

JaneDoeCleaned == "Jane Doe.email: jane@x.com.Dept of Y"

JaneDoeClaimed == "Jane Doe. . Dept of Y."

C8_ExportOnceAfterClose ==
    /\ exports <= 1
    /\ pc = "done" => exports = 1
    /\ exports > 0 => ~browser /\ pages = 0 /\ Len(fetched) = Len(hrefs)
    /\ (pc = "files" \/ removed # {}) =>
          ~browser /\ pages = 0 /\ Len(fetched) = Len(hrefs)

\* C8 witness: a staging run over two links has read its files and exported.
C8_Witness ==
    /\ pc = "done" /\ variant = "disk" /\ Len(hrefs) = 2
    /\ exports = 1 /\ removed # {}

\* C9: on every document the in-memory extractor and the file extractors end
\* the same way with the same five values.
C9_VariantsAgree ==
    (memOut # NotRun /\ diskOut # NotRun) => memOut = diskOut

\* C10: a staging run exports at most one row per discovered link, every row
\* that of a page it fetched, and removes only files it staged.
C10_OwnPagesOnly ==
    /\ removed \subseteq staged
    /\ (pc = "done" /\ variant = "disk") =>
          /\ Len(data) <= Len(hrefs)
          /\ \A k \in 1..Len(data) : \E j \in 1..Len(fetched) : data[k] = RowOf(fetched[j])

===========================================================================
